---- MODULE Spec2Model ----
(***************************************************************************)
(* Entity hierarchy engine of zolaris-go-backend: EntityService            *)
(* (internal/services/entity_service.go) over an entity store and the      *)
(* user repository (internal/repositories/user_repository.go).            *)
(*                                                                         *)
(* Entity identifiers are modelled as the naturals 1, 2, ... in order of   *)
(* creation; 0 stands for the empty string / a NULL parent.  An            *)
(* identifier larger than the number of persisted entities names no        *)
(* entity.  The free-form details payload is abstracted to what the        *)
(* engine reads of it: the key "subuser_id" and the dynamic type of its    *)
(* value.  No operation of the engine reads a persisted payload back, so   *)
(* the stored entity keeps its category, name, owner, parent and depth.    *)
(*                                                                         *)
(* Spec takes every service call as one step.  SpecRead is the store      *)
(* built by the creating calls and read by the three calls that walk the  *)
(* hierarchy.  SpecConcurrent runs CreateSubEntity calls of two request   *)
(* handlers one collaborator call at a time (variable running).           *)
(* SpecPointer does the same for calls that cross-link a user, with       *)
(* cancellation between the collaborator calls.  SpecFrame runs the seven *)
(* operations of EntityService and SpecUsers the user operations          *)
(* (GetChildUsers, UpdateUserDetails) beside entity creation, both with   *)
(* two existing users.                                                     *)
(***************************************************************************)
EXTENDS Integers, Sequences, FiniteSets, TLC

VARIABLES entities, users, last, running

vars == <<entities, users, last, running>>

\* ------------------------------------------------------------------ bounds

\* number of entities the store may hold
MaxEntities == 3

\* ------------------------------------------------------------- input sets

NoEntity == 0

EntityIdInputs == 0..MaxEntities

CategoryTable == [cUser |-> "user", cOrg |-> "organization"]

Categories == DOMAIN CategoryTable

NameInputs == {"", "n1"}

UserIds == {"u1", "u2"}

SubuserInputs == {"u1", "u2"}

\* details == nil | a map without "subuser_id" | "subuser_id" bound to a
\* non-string | "subuser_id" bound to the string val
DetailsInputs ==
  {[kind |-> k, val |-> ""] : k \in {"nil", "empty", "number"}}
    \cup {[kind |-> "string", val |-> s] : s \in SubuserInputs}

Faults == {"none", "parentCategory", "parentType", "currentType", "persist", "link"}

\* ------------------------------------------------ entity store (repository)

\* s.repo.GetCategoryIDByEntityID
RepoGetCategoryIDByEntityID(es, entityID) ==
  IF entityID \in 1..Len(es)
    THEN [val |-> es[entityID].category_id, err |-> "none"]
    ELSE [val |-> "", err |-> "notfound"]

\* s.repo.GetCategoryType
RepoGetCategoryType(categoryID) ==
  IF categoryID \in Categories
    THEN [val |-> CategoryTable[categoryID], err |-> "none"]
    ELSE [val |-> "", err |-> "notfound"]

\* s.repo.CreateRootEntity: parent = none, depth = 0
RepoCreateRootEntity(es, categoryId, entityName, userId, details) ==
  IF categoryId \notin Categories
    THEN [entities |-> es, id |-> NoEntity, err |-> "storage"]
    ELSE [entities |-> Append(es, [category_id |-> categoryId, name |-> entityName,
                                   user_id |-> userId,
                                   parent_id |-> NoEntity, depth |-> 0]),
          id |-> Len(es) + 1, err |-> "none"]

RepoCreateSubEntityShallow(es, categoryId, entityName, userId, details, parentEntityID) ==
  IF categoryId \notin Categories \/ parentEntityID \notin 1..Len(es)
    THEN [entities |-> es, id |-> NoEntity, err |-> "storage"]
    ELSE [entities |-> Append(es, [category_id |-> categoryId, name |-> entityName,
                                   user_id |-> userId,
                                   parent_id |-> parentEntityID,
                                   depth |-> es[parentEntityID].depth]),
          id |-> Len(es) + 1, err |-> "none"]

\* s.repo.CreateSubEntity: parent = parentEntityID, depth = parent.depth + 1
RepoCreateSubEntity(es, categoryId, entityName, userId, details, parentEntityID) ==
  IF categoryId \notin Categories \/ parentEntityID \notin 1..Len(es)
    THEN [entities |-> es, id |-> NoEntity, err |-> "storage"]
    ELSE [entities |-> Append(es, [category_id |-> categoryId, name |-> entityName,
                                   user_id |-> userId,
                                   parent_id |-> parentEntityID,
                                   depth |-> es[parentEntityID].depth + 1]),
          id |-> Len(es) + 1, err |-> "none"]

\* s.repo.CheckEntityPresence: does the user own an entity
RepoCheckEntityPresence(es, userId) ==
  \E i \in 1..Len(es) : es[i].user_id = userId

\* ------------------------------------------------------- user repository

UpdateUserParentIDStrict(us, userID, parentID, dbFails) ==
  IF dbFails
    THEN [users |-> us, err |-> "link"]
    ELSE IF userID \in UserIds /\ us[userID].exists
      THEN [users |-> [us EXCEPT ![userID].parent_id = parentID], err |-> "none"]
      ELSE [users |-> us, err |-> "link"]

UpdateUserParentIDNoWrite(us, userID, parentID, dbFails) ==
  IF dbFails
    THEN [users |-> us, err |-> "link"]
    ELSE [users |-> us, err |-> "none"]

\* UserRepository.UpdateUserParentID: UPDATE z_users SET parent_id = $1
\* WHERE user_id = $2; zero affected rows is logged, not an error
UpdateUserParentID(us, userID, parentID, dbFails) ==
  IF dbFails
    THEN [users |-> us, err |-> "link"]
    ELSE IF userID \in UserIds /\ us[userID].exists
      THEN [users |-> [us EXCEPT ![userID].parent_id = parentID], err |-> "none"]
      ELSE [users |-> us, err |-> "none"]

\* --------------------------------------------- EntityService.CreateSubEntity

\* details == nil is replaced by an empty map
NormaliseDetails(details) ==
  IF details.kind = "nil" THEN [kind |-> "empty", val |-> ""] ELSE details

\* _, ok := details["subuser_id"]
HasSubuserKey(details) == details.kind \in {"number", "string"}

\* _, ok := subuserRaw.(string)
IsStringValue(details) == details.kind = "string"

\* the state of one call: its arguments, the values it has resolved, its
\* outcome, and the collaborator calls it has made (calls: all of them, in
\* the order made)
NewCall(es, us, categoryId, entityName, userId, details, parentEntityID, fault) ==
  [entities |-> es, users |-> us, categoryId |-> categoryId,
   entityName |-> entityName, userId |-> userId, details |-> details,
   parentEntityID |-> parentEntityID, fault |-> fault,
   parentCategoryID |-> "", parentCategoryType |-> "", currentCategoryType |-> "",
   subentityID |-> NoEntity, id |-> NoEntity, err |-> "none", msg |-> "",
   repoCalls |-> <<>>, userRepoCalls |-> <<>>, calls |-> <<>>,
   faultHit |-> "none", done |-> FALSE]

Fail(cx, kind, message) ==
  [cx EXCEPT !.err = kind, !.msg = message, !.id = NoEntity, !.done = TRUE]

StepValidateCategoryOnly(cx) ==
  IF cx.categoryId = "" THEN Fail(cx, "validation", "category ID cannot be empty")
  ELSE [cx EXCEPT !.details = NormaliseDetails(cx.details)]

\* lines 53-62
StepValidate(cx) ==
  IF cx.categoryId = "" THEN Fail(cx, "validation", "category ID cannot be empty")
  ELSE IF cx.entityName = "" THEN Fail(cx, "validation", "entity name cannot be empty")
  ELSE [cx EXCEPT !.details = NormaliseDetails(cx.details)]

\* lines 64-67
StepParentCategory(cx) ==
  IF cx.done THEN cx ELSE
  LET c1 == [cx EXCEPT !.repoCalls = Append(@, "GetCategoryIDByEntityID"),
                       !.calls = Append(@, "GetCategoryIDByEntityID")]
      r == RepoGetCategoryIDByEntityID(cx.entities, cx.parentEntityID)
  IN IF cx.fault = "parentCategory"
       THEN Fail([c1 EXCEPT !.faultHit = cx.fault], "storage",
                 "failed to get parent's category ID")
     ELSE IF r.err # "none"
       THEN Fail(c1, r.err, "failed to get parent's category ID")
     ELSE [c1 EXCEPT !.parentCategoryID = r.val]

\* lines 69-72
StepParentType(cx) ==
  IF cx.done THEN cx ELSE
  LET c1 == [cx EXCEPT !.repoCalls = Append(@, "GetCategoryType"),
                       !.calls = Append(@, "GetCategoryType")]
      r == RepoGetCategoryType(cx.parentCategoryID)
  IN IF cx.fault = "parentType"
       THEN Fail([c1 EXCEPT !.faultHit = cx.fault], "storage",
                 "failed to get parent's category type")
     ELSE IF r.err # "none"
       THEN Fail(c1, r.err, "failed to get parent's category type")
     ELSE [c1 EXCEPT !.parentCategoryType = r.val]

\* lines 74-77
StepCurrentType(cx) ==
  IF cx.done THEN cx ELSE
  LET c1 == [cx EXCEPT !.repoCalls = Append(@, "GetCategoryType"),
                       !.calls = Append(@, "GetCategoryType")]
      r == RepoGetCategoryType(cx.categoryId)
  IN IF cx.fault = "currentType"
       THEN Fail([c1 EXCEPT !.faultHit = cx.fault], "storage",
                 "failed to get parent's category type")
     ELSE IF r.err # "none"
       THEN Fail(c1, r.err, "failed to get parent's category type")
     ELSE [c1 EXCEPT !.currentCategoryType = r.val]

StepPersistAsRoot(cx) ==
  IF cx.done THEN cx ELSE
  LET c1 == [cx EXCEPT !.repoCalls = Append(@, "CreateRootEntity"),
                       !.calls = Append(@, "CreateRootEntity")]
      r == RepoCreateRootEntity(cx.entities, cx.categoryId, cx.entityName,
                                cx.userId, cx.details)
  IN IF cx.fault = "persist"
       THEN Fail([c1 EXCEPT !.faultHit = cx.fault], "storage",
                 "failed to create sub-entity")
     ELSE IF r.err # "none"
       THEN Fail(c1, r.err, "failed to create sub-entity")
     ELSE [c1 EXCEPT !.entities = r.entities, !.subentityID = r.id]

\* the entities already persisted with the call's category, name and parent
SameSubEntities(es, categoryId, entityName, parentEntityID) ==
  {i \in 1..Len(es) : /\ es[i].category_id = categoryId
                      /\ es[i].name = entityName
                      /\ es[i].parent_id = parentEntityID}

StepPersistIdempotent(cx) ==
  IF cx.done THEN cx ELSE
  LET same == SameSubEntities(cx.entities, cx.categoryId, cx.entityName,
                              cx.parentEntityID)
      c1 == [cx EXCEPT !.repoCalls = Append(@, "CreateSubEntity"),
                       !.calls = Append(@, "CreateSubEntity")]
      r == RepoCreateSubEntity(cx.entities, cx.categoryId, cx.entityName,
                               cx.userId, cx.details, cx.parentEntityID)
  IN IF same # {}
       THEN [cx EXCEPT !.subentityID = CHOOSE i \in same : \A j \in same : i <= j]
     ELSE IF cx.fault = "persist"
       THEN Fail([c1 EXCEPT !.faultHit = cx.fault], "storage",
                 "failed to create sub-entity")
     ELSE IF r.err # "none"
       THEN Fail(c1, r.err, "failed to create sub-entity")
     ELSE [c1 EXCEPT !.entities = r.entities, !.subentityID = r.id]

\* lines 79-82: the entity is persisted unconditionally, before the
\* category types are compared
StepPersist(cx) ==
  IF cx.done THEN cx ELSE
  LET c1 == [cx EXCEPT !.repoCalls = Append(@, "CreateSubEntity"),
                       !.calls = Append(@, "CreateSubEntity")]
      r == RepoCreateSubEntity(cx.entities, cx.categoryId, cx.entityName,
                               cx.userId, cx.details, cx.parentEntityID)
  IN IF cx.fault = "persist"
       THEN Fail([c1 EXCEPT !.faultHit = cx.fault], "storage",
                 "failed to create sub-entity")
     ELSE IF r.err # "none"
       THEN Fail(c1, r.err, "failed to create sub-entity")
     ELSE [c1 EXCEPT !.entities = r.entities, !.subentityID = r.id]

RequiresLinkEither(parentCategoryType, currentCategoryType) ==
  parentCategoryType = "user" \/ currentCategoryType = "user"

\* line 83
RequiresLink(parentCategoryType, currentCategoryType) ==
  parentCategoryType = "user" /\ currentCategoryType = "user"

LinkArgsOwner(cx) ==
  [userID |-> cx.userId, parentID |-> cx.parentEntityID]

LinkArgsNewEntity(cx) ==
  [userID |-> cx.details.val, parentID |-> cx.subentityID]

\* line 94: UpdateUserParentID(ctx, subuserID, &parentEntityID)
LinkArgs(cx) ==
  [userID |-> cx.details.val, parentID |-> cx.parentEntityID]

StepLinkSilentSkip(cx) ==
  IF cx.done THEN cx ELSE
  IF ~RequiresLink(cx.parentCategoryType, cx.currentCategoryType)
       \/ ~HasSubuserKey(cx.details) \/ ~IsStringValue(cx.details)
    THEN [cx EXCEPT !.id = cx.subentityID, !.done = TRUE]
  ELSE
    LET args == LinkArgs(cx)
        c1 == [cx EXCEPT !.userRepoCalls = Append(@, args),
                         !.calls = Append(@, "UpdateUserParentID")]
        r == UpdateUserParentID(cx.users, args.userID, args.parentID,
                                cx.fault = "link")
    IN IF r.err # "none"
         THEN Fail([c1 EXCEPT !.faultHit = cx.fault], "link",
                   "failed to update user parent ID")
         ELSE [c1 EXCEPT !.users = r.users, !.id = cx.subentityID, !.done = TRUE]

StepLinkRollback(cx) ==
  IF cx.done THEN cx ELSE
  IF ~RequiresLink(cx.parentCategoryType, cx.currentCategoryType)
    THEN [cx EXCEPT !.id = cx.subentityID, !.done = TRUE]
  ELSE IF ~HasSubuserKey(cx.details)
    THEN Fail(cx, "validation", "subuser_id not found in details")
  ELSE IF ~IsStringValue(cx.details)
    THEN Fail(cx, "validation", "subuser_id must be a string")
  ELSE
    LET args == LinkArgs(cx)
        c1 == [cx EXCEPT !.userRepoCalls = Append(@, args),
                         !.calls = Append(@, "UpdateUserParentID")]
        r == UpdateUserParentID(cx.users, args.userID, args.parentID,
                                cx.fault = "link")
    IN IF r.err # "none"
         THEN Fail([c1 EXCEPT !.faultHit = cx.fault,
                              !.entities = SubSeq(@, 1, Len(@) - 1)], "link",
                   "failed to update user parent ID")
         ELSE [c1 EXCEPT !.users = r.users, !.id = cx.subentityID, !.done = TRUE]

\* lines 83-98
StepLink(cx) ==
  IF cx.done THEN cx ELSE
  IF ~RequiresLink(cx.parentCategoryType, cx.currentCategoryType)
    THEN [cx EXCEPT !.id = cx.subentityID, !.done = TRUE]
  ELSE IF ~HasSubuserKey(cx.details)
    THEN Fail(cx, "validation", "subuser_id not found in details")
  ELSE IF ~IsStringValue(cx.details)
    THEN Fail(cx, "validation", "subuser_id must be a string")
  ELSE
    LET args == LinkArgs(cx)
        c1 == [cx EXCEPT !.userRepoCalls = Append(@, args),
                         !.calls = Append(@, "UpdateUserParentID")]
        r == UpdateUserParentID(cx.users, args.userID, args.parentID,
                                cx.fault = "link")
    IN IF r.err # "none"
         THEN Fail([c1 EXCEPT !.faultHit = cx.fault], "link",
                   "failed to update user parent ID")
         ELSE [c1 EXCEPT !.users = r.users, !.id = cx.subentityID, !.done = TRUE]

\* the subuser_id checks of lines 84-91 made on their own
StepSubuserCheck(cx) ==
  IF cx.done \/ ~RequiresLink(cx.parentCategoryType, cx.currentCategoryType) THEN cx
  ELSE IF ~HasSubuserKey(cx.details)
    THEN Fail(cx, "validation", "subuser_id not found in details")
  ELSE IF ~IsStringValue(cx.details)
    THEN Fail(cx, "validation", "subuser_id must be a string")
  ELSE cx

CreateSubEntitySvcCheckFirst(cx) ==
  StepLink(StepPersist(StepSubuserCheck(StepCurrentType(StepParentType(
    StepParentCategory(StepValidate(cx)))))))

CreateSubEntitySvcPersistEarly(cx) ==
  StepLink(StepCurrentType(StepPersist(StepParentType(
    StepParentCategory(StepValidate(cx))))))

\* EntityService.CreateSubEntity, lines 52-99
CreateSubEntitySvc(cx) ==
  StepLink(StepPersist(StepCurrentType(StepParentType(
    StepParentCategory(StepValidate(cx))))))

\* -------------------------------------------- EntityService.CreateRootEntity

CreateRootEntitySvcFirstId(cx) ==
  IF cx.categoryId = "" THEN Fail(cx, "validation", "category ID cannot be empty")
  ELSE IF cx.entityName = "" THEN Fail(cx, "validation", "entity name cannot be empty")
  ELSE
    LET c1 == [cx EXCEPT !.details = NormaliseDetails(cx.details),
                         !.repoCalls = Append(@, "CreateRootEntity"),
                         !.calls = Append(@, "CreateRootEntity")]
        r == RepoCreateRootEntity(cx.entities, cx.categoryId, cx.entityName,
                                  cx.userId, c1.details)
    IN IF cx.fault = "persist"
         THEN Fail([c1 EXCEPT !.faultHit = cx.fault], "storage", "storage failure")
       ELSE IF r.err # "none"
         THEN Fail(c1, r.err, "storage failure")
       ELSE [c1 EXCEPT !.entities = r.entities, !.subentityID = r.id,
                       !.id = 1, !.done = TRUE]

\* lines 34-49
CreateRootEntitySvc(cx) ==
  IF cx.categoryId = "" THEN Fail(cx, "validation", "category ID cannot be empty")
  ELSE IF cx.entityName = "" THEN Fail(cx, "validation", "entity name cannot be empty")
  ELSE
    LET c1 == [cx EXCEPT !.details = NormaliseDetails(cx.details),
                         !.repoCalls = Append(@, "CreateRootEntity"),
                         !.calls = Append(@, "CreateRootEntity")]
        r == RepoCreateRootEntity(cx.entities, cx.categoryId, cx.entityName,
                                  cx.userId, c1.details)
    IN IF cx.fault = "persist"
         THEN Fail([c1 EXCEPT !.faultHit = cx.fault], "storage", "storage failure")
       ELSE IF r.err # "none"
         THEN Fail(c1, r.err, "storage failure")
       ELSE [c1 EXCEPT !.entities = r.entities, !.subentityID = r.id,
                       !.id = r.id, !.done = TRUE]

\* ------------------------------------------- EntityService.CheckEntityExists

CheckEntityExistsNoValidation(es, userId, storeFails) ==
  IF storeFails
    THEN [exists |-> FALSE, err |-> "storage", repoCalls |-> <<"CheckEntityPresence">>]
    ELSE [exists |-> RepoCheckEntityPresence(es, userId), err |-> "none",
          repoCalls |-> <<"CheckEntityPresence">>]

\* lines 25-31
CheckEntityExistsSvc(es, userId, storeFails) ==
  IF userId = ""
    THEN [exists |-> FALSE, err |-> "validation", repoCalls |-> <<>>]
  ELSE IF storeFails
    THEN [exists |-> FALSE, err |-> "storage", repoCalls |-> <<"CheckEntityPresence">>]
    ELSE [exists |-> RepoCheckEntityPresence(es, userId), err |-> "none",
          repoCalls |-> <<"CheckEntityPresence">>]

\* ------------------------------------------ EntityService.ListEntityChildren

\* number of parent steps from entity i up to root; -1 when root is no
\* ancestor of i
RECURSIVE StepsUp(_, _, _)
StepsUp(es, i, root) ==
  IF i = root THEN 0
  ELSE IF i \notin 1..Len(es) THEN -1
  ELSE IF es[i].parent_id = NoEntity THEN -1
  ELSE LET d == StepsUp(es, es[i].parent_id, root)
       IN IF d < 0 THEN -1 ELSE d + 1

\* s.repo.ListEntityChildren: 0 = direct children, -1 = all descendants,
\* N > 0 = descendants up to N levels deep; categoryType "" = no filter
RepoListEntityChildren(es, entityId, level, categoryType) ==
  {i \in 1..Len(es) :
     LET d == StepsUp(es, i, entityId)
     IN /\ d >= 1
        /\ \/ level = -1
           \/ level = 0 /\ d = 1
           \/ level > 0 /\ d <= level
        /\ \/ categoryType = ""
           \/ CategoryTable[es[i].category_id] = categoryType}

ValidLevelOffByOne(level) == level >= -2

\* line 129: level < -1 is rejected
ValidLevel(level) == level >= -1

ListEntityChildrenSvcDirect(es, entityId, level, categoryType, storeFails) ==
  IF entityId = NoEntity
    THEN [result |-> {}, err |-> "validation", msg |-> "entity ID cannot be empty",
          repoCalls |-> <<>>]
  ELSE IF level < -1
    THEN [result |-> {}, err |-> "validation", msg |-> "invalid level",
          repoCalls |-> <<>>]
  ELSE IF storeFails
    THEN [result |-> {}, err |-> "storage", msg |-> "storage failure",
          repoCalls |-> <<"ListEntityChildren">>]
    ELSE [result |-> RepoListEntityChildren(es, entityId, 0, categoryType),
          err |-> "none", msg |-> "", repoCalls |-> <<"ListEntityChildren">>]

\* lines 123-134
ListEntityChildrenSvc(es, entityId, level, categoryType, storeFails) ==
  IF entityId = NoEntity
    THEN [result |-> {}, err |-> "validation", msg |-> "entity ID cannot be empty",
          repoCalls |-> <<>>]
  ELSE IF ~ValidLevel(level)
    THEN [result |-> {}, err |-> "validation", msg |-> "invalid level",
          repoCalls |-> <<>>]
  ELSE IF storeFails
    THEN [result |-> {}, err |-> "storage", msg |-> "storage failure",
          repoCalls |-> <<"ListEntityChildren">>]
    ELSE [result |-> RepoListEntityChildren(es, entityId, level, categoryType),
          err |-> "none", msg |-> "", repoCalls |-> <<"ListEntityChildren">>]

\* -------------------------------------------- EntityService.GetChildEntities

\* the entities reached downwards from frontier, one generation at a time
RECURSIVE Descend(_, _, _)
Descend(es, frontier, found) ==
  LET next == {i \in 1..Len(es) : es[i].parent_id \in frontier} \ found
  IN IF next = {} THEN found ELSE Descend(es, next, found \cup next)

\* s.repo.GetChildEntities: the entities whose parent is entityId; with
\* recursive, those, their children, and so on downwards
RepoGetChildEntities(es, entityId, recursive) ==
  IF recursive
    THEN Descend(es, {entityId}, {})
    ELSE {i \in 1..Len(es) : es[i].parent_id = entityId}

GetChildEntitiesSvcNeverRecursive(es, entityId, recursive, storeFails) ==
  IF entityId = NoEntity
    THEN [result |-> {}, err |-> "validation", msg |-> "entity ID cannot be empty",
          repoCalls |-> <<>>]
  ELSE IF storeFails
    THEN [result |-> {}, err |-> "storage", msg |-> "storage failure",
          repoCalls |-> <<"GetChildEntities">>]
    ELSE [result |-> RepoGetChildEntities(es, entityId, FALSE),
          err |-> "none", msg |-> "", repoCalls |-> <<"GetChildEntities">>]

\* lines 103-109
GetChildEntitiesSvc(es, entityId, recursive, storeFails) ==
  IF entityId = NoEntity
    THEN [result |-> {}, err |-> "validation", msg |-> "entity ID cannot be empty",
          repoCalls |-> <<>>]
  ELSE IF storeFails
    THEN [result |-> {}, err |-> "storage", msg |-> "storage failure",
          repoCalls |-> <<"GetChildEntities">>]
    ELSE [result |-> RepoGetChildEntities(es, entityId, recursive),
          err |-> "none", msg |-> "", repoCalls |-> <<"GetChildEntities">>]

\* ------------------------------------------ EntityService.GetEntityHierarchy

NoDocument == [id |-> NoEntity, children |-> {}]

\* the nested document of entity i: the entity and, under it, the documents
\* of its direct children
RECURSIVE HierarchyNode(_, _)
HierarchyNode(es, i) ==
  [id |-> i,
   children |-> {HierarchyNode(es, c) :
                   c \in {j \in 1..Len(es) : es[j].parent_id = i}}]

\* s.repo.GetEntityHierarchy: NotFound when no entity has the root id
RepoGetEntityHierarchy(es, rootEntityId) ==
  IF rootEntityId \in 1..Len(es)
    THEN [doc |-> HierarchyNode(es, rootEntityId), err |-> "none"]
    ELSE [doc |-> NoDocument, err |-> "notfound"]

GetEntityHierarchySvcChildrenOnly(es, rootEntityId, storeFails) ==
  IF rootEntityId = NoEntity
    THEN [doc |-> NoDocument, err |-> "validation",
          msg |-> "root entity ID cannot be empty", repoCalls |-> <<>>]
  ELSE IF storeFails
    THEN [doc |-> NoDocument, err |-> "storage", msg |-> "storage failure",
          repoCalls |-> <<"GetEntityHierarchy">>]
    ELSE LET r == RepoGetEntityHierarchy(es, rootEntityId)
         IN [doc |-> [id |-> r.doc.id, children |-> {}], err |-> r.err,
             msg |-> IF r.err = "none" THEN "" ELSE "storage failure",
             repoCalls |-> <<"GetEntityHierarchy">>]

\* lines 112-118
GetEntityHierarchySvc(es, rootEntityId, storeFails) ==
  IF rootEntityId = NoEntity
    THEN [doc |-> NoDocument, err |-> "validation",
          msg |-> "root entity ID cannot be empty", repoCalls |-> <<>>]
  ELSE IF storeFails
    THEN [doc |-> NoDocument, err |-> "storage", msg |-> "storage failure",
          repoCalls |-> <<"GetEntityHierarchy">>]
    ELSE LET r == RepoGetEntityHierarchy(es, rootEntityId)
         IN [doc |-> r.doc, err |-> r.err,
             msg |-> IF r.err = "none" THEN "" ELSE "storage failure",
             repoCalls |-> <<"GetEntityHierarchy">>]

\* ------------------------------------------------ EntityService.GetEntityID

\* s.repo.GetEntityID: the entities the user owns, any of which may be the
\* one whose id is returned
RepoGetEntityID(es, userId) == {i \in 1..Len(es) : es[i].user_id = userId}

\* lines 139-145; ids are the ids the store may answer with
GetEntityIDSvc(es, userId, storeFails) ==
  IF userId = ""
    THEN [ids |-> {}, err |-> "validation", msg |-> "user ID is empty",
          repoCalls |-> <<>>]
  ELSE IF storeFails
    THEN [ids |-> {}, err |-> "storage", msg |-> "storage failure",
          repoCalls |-> <<"GetEntityID">>]
  ELSE IF RepoGetEntityID(es, userId) = {}
    THEN [ids |-> {}, err |-> "notfound", msg |-> "storage failure",
          repoCalls |-> <<"GetEntityID">>]
    ELSE [ids |-> RepoGetEntityID(es, userId), err |-> "none", msg |-> "",
          repoCalls |-> <<"GetEntityID">>]

\* ----------------------------------------------------- UserService.CreateUser

\* UserRequestToEntity(req, nil) then UserRepository.CreateUser: the row's
\* parent_id is the request's ParentID, NULL when that is empty
CreateUserRow(us, userID, reqParentID) ==
  [us EXCEPT ![userID] = [exists |-> TRUE, parent_id |-> reqParentID,
                          email |-> "e1", first_name |-> "f1",
                          role |-> "user"]]

\* ---------------------------------------------- UserService.UpdateUserDetails

\* dto.UserDetailsRequest: the fields the update reads; ParentID is an
\* entity identifier, NoEntity standing for the empty string
UserDetailsRequests ==
  [Email : {"e2"}, FirstName : {"f1", "f2"}, ParentID : {NoEntity, 1},
   Role : {"", "admin"}]

NoRequest == [Email |-> "", FirstName |-> "", ParentID |-> NoEntity, Role |-> ""]

\* no domain.User (the nil pointer)
NoUser ==
  [id |-> "", email |-> "", first_name |-> "", role |-> "",
   parent_id |-> NoEntity]

\* UserRepository.GetUserByID: the row whose user_id is userID, (nil, nil)
\* when there is none
GetUserByID(us, userID, dbFails) ==
  IF dbFails
    THEN [user |-> NoUser, found |-> FALSE, err |-> "database"]
    ELSE IF userID \in DOMAIN us /\ us[userID].exists
      THEN [user |-> [id |-> userID, email |-> us[userID].email,
                      first_name |-> us[userID].first_name,
                      role |-> us[userID].role,
                      parent_id |-> us[userID].parent_id],
            found |-> TRUE, err |-> "none"]
      ELSE [user |-> NoUser, found |-> FALSE, err |-> "none"]

\* mappers.UserRequestToEntity(req, existingUser) for an existing user: the
\* request overwrites email and first name, the parent only when it names
\* one, and the role falls back to "user" when the request has none
UserRequestToEntity(req, existingUser) ==
  [existingUser EXCEPT
     !.email = req.Email,
     !.first_name = req.FirstName,
     !.parent_id = IF req.ParentID # NoEntity THEN req.ParentID ELSE @,
     !.role = IF req.Role # "" THEN req.Role ELSE "user"]

\* an UPDATE that also writes parent_id, email and role
UpdateUserAllColumns(us, user, dbFails) ==
  IF dbFails
    THEN [users |-> us, err |-> "update"]
    ELSE IF user.id \in DOMAIN us /\ us[user.id].exists
      THEN [users |-> [us EXCEPT ![user.id].first_name = user.first_name,
                                 ![user.id].parent_id = user.parent_id,
                                 ![user.id].email = user.email,
                                 ![user.id].role = user.role],
            err |-> "none"]
      ELSE [users |-> us, err |-> "update"]

\* UserRepository.UpdateUser: UPDATE z_users SET first_name, last_name,
\* phone, address, updated_at WHERE user_id = $6; no row affected is an error
UpdateUser(us, user, dbFails) ==
  IF dbFails
    THEN [users |-> us, err |-> "update"]
    ELSE IF user.id \in DOMAIN us /\ us[user.id].exists
      THEN [users |-> [us EXCEPT ![user.id].first_name = user.first_name],
            err |-> "none"]
      ELSE [users |-> us, err |-> "update"]

\* UserService.UpdateUserDetails; fault names the repository call that fails
UpdateUserDetailsSvc(us, userID, req, fault) ==
  LET g == GetUserByID(us, userID, fault = "get")
  IN IF g.err # "none"
       THEN [users |-> us, user |-> NoUser, err |-> "retrieve",
             calls |-> <<"GetUserByID">>]
       ELSE IF ~g.found
         THEN [users |-> us, user |-> NoUser, err |-> "notFound",
               calls |-> <<"GetUserByID">>]
         ELSE LET updatedUser == UserRequestToEntity(req, g.user)
                  w == UpdateUser(us, updatedUser, fault = "update")
              IN IF w.err # "none"
                   THEN [users |-> w.users, user |-> NoUser, err |-> "update",
                         calls |-> <<"GetUserByID", "UpdateUser">>]
                   ELSE [users |-> w.users, user |-> updatedUser,
                         err |-> "none",
                         calls |-> <<"GetUserByID", "UpdateUser">>]

\* ------------------------------------------- UserRepository.GetChildUsers

\* Identifiers are strings in the code.  Entity identifiers are numbers
\* here and user identifiers are names, so an identifier that may be either
\* is a pair with one side blank.
NoKey == [entity |-> NoEntity, user |-> ""]

EntityKey(e) == [entity |-> e, user |-> ""]

UserKey(u) == [entity |-> NoEntity, user |-> u]

\* UserRepository.GetChildUsers: SELECT ... FROM z_users WHERE user_id = $1.
\* The scan reads the cognito_id column into the address bytes, so a row
\* that is found is returned only when that text is empty, "null" or parses
\* as an address (addressParses); otherwise the call fails.
RepoGetChildUsers(us, parentID, addressParses, dbFails) ==
  IF dbFails
    THEN [rows |-> {}, err |-> "database"]
    ELSE LET rows == {u \in DOMAIN us : /\ us[u].exists
                                        /\ u = parentID.user}
         IN IF rows # {} /\ ~addressParses
              THEN [rows |-> {}, err |-> "parse"]
              ELSE [rows |-> rows, err |-> "none"]

\* ---------------------------------------------------------------- the system

\* the calls of CreateSubEntity the model makes: every category, payload and
\* parent identifier without a fault; a fault at each collaborator call of a
\* call that reaches the cross-link; empty and unknown category, empty name
SubEntityCalls ==
  LET call(c, n, d, p, f) ==
        [categoryId |-> c, entityName |-> n, userId |-> "u1", details |-> d,
         parentEntityID |-> p, fault |-> f]
      linked == [kind |-> "string", val |-> "u1"]
  IN {call(c, "n1", d, p, "none") :
        c \in Categories, d \in DetailsInputs, p \in EntityIdInputs}
       \cup {call("cUser", "n1", linked, p, f) :
               p \in EntityIdInputs, f \in Faults \ {"none"}}
       \cup {call(c, n, linked, 1, "none") :
               c \in {"", "cMissing", "cUser"}, n \in NameInputs}

RootEntityCalls ==
  LET call(c, n, d, f) ==
        [categoryId |-> c, entityName |-> n, userId |-> "u1", details |-> d,
         parentEntityID |-> NoEntity, fault |-> f]
      none == [kind |-> "nil", val |-> ""]
  IN {call(c, "n1", d, "none") :
        c \in Categories, d \in {none, [kind |-> "string", val |-> "u1"]}}
       \cup {call("cUser", "n1", none, "persist")}
       \cup {call(c, n, none, "none") : c \in {"", "cUser"}, n \in NameInputs}

CheckEntityExistsCalls ==
  {[userId |-> u, storeFails |-> FALSE] : u \in {"", "u1", "u2"}}
    \cup {[userId |-> "u1", storeFails |-> TRUE]}

ListEntityChildrenCalls ==
  {[entityId |-> e, level |-> l, categoryType |-> t, storeFails |-> FALSE] :
     e \in {NoEntity, 1}, l \in {-3, -2, -1, 0, 1}, t \in {"", "user"}}
    \cup {[entityId |-> 1, level |-> 0, categoryType |-> "", storeFails |-> TRUE]}
    \cup {[entityId |-> e, level |-> l, categoryType |-> "", storeFails |-> FALSE] :
            e \in 2..MaxEntities, l \in {-1, 0}}

GetChildEntitiesCalls ==
  {[entityId |-> e, recursive |-> r, storeFails |-> FALSE] :
     e \in EntityIdInputs, r \in BOOLEAN}
    \cup {[entityId |-> 1, recursive |-> TRUE, storeFails |-> TRUE]}

GetEntityHierarchyCalls ==
  {[rootEntityId |-> e, storeFails |-> FALSE] : e \in EntityIdInputs}
    \cup {[rootEntityId |-> 1, storeFails |-> TRUE]}

GetEntityIDCalls ==
  {[userId |-> u, storeFails |-> FALSE] : u \in {"", "u1", "u2"}}
    \cup {[userId |-> "u1", storeFails |-> TRUE]}

\* the requests served at the same time
Procs == {"a", "b"}

\* the calls of CreateSubEntity made concurrently: a category of either type;
\* the parent is chosen among the persisted entities when the call starts
ConcurrentCalls ==
  {[categoryId |-> c, entityName |-> "n1", userId |-> "u1",
    details |-> [kind |-> "string", val |-> "u1"]] : c \in Categories}

\* a request handler that is serving no call; began is the number of
\* entities persisted when its call started
Idle ==
  [pc |-> "idle", began |-> 0,
   cx |-> NewCall(<<>>, <<>>, "", "", "", [kind |-> "empty", val |-> ""],
                  NoEntity, "none")]

NoCall ==
  [op |-> "none", categoryId |-> "", entityName |-> "",
   details |-> [kind |-> "empty", val |-> ""], parentEntityID |-> NoEntity,
   userId |-> "", entityId |-> NoEntity, level |-> 0, categoryType |-> "",
   err |-> "none", msg |-> "", id |-> NoEntity, exists |-> FALSE, result |-> {},
   repoCalls |-> <<>>, userRepoCalls |-> <<>>, faultHit |-> "none",
   persisted |-> FALSE, retry |-> FALSE, before |-> 0,
   recursive |-> FALSE, doc |-> NoDocument, calls |-> <<>>,
   parentID |-> NoKey, children |-> {}, req |-> NoRequest, user |-> NoUser]

Init ==
  /\ entities = <<>>
  /\ users = [u \in UserIds |-> [exists |-> FALSE, parent_id |-> NoEntity,
                                      email |-> "", first_name |-> "",
                                      role |-> ""]]
  /\ last = NoCall
  /\ running = [p \in Procs |-> Idle]

\* the previous call was this very CreateSubEntity call and failed at the
\* cross-link, after its entity had been persisted
IsRetry(c) ==
  /\ last.op = "CreateSubEntity"
  /\ last.err = "link"
  /\ last.categoryId = c.categoryId
  /\ last.entityName = c.entityName
  /\ last.userId = c.userId
  /\ last.details = NormaliseDetails(c.details)
  /\ last.parentEntityID = c.parentEntityID

Returned(op, c, cx) ==
  [NoCall EXCEPT !.op = op, !.persisted = Len(cx.entities) > Len(entities),
     !.categoryId = c.categoryId, !.entityName = c.entityName,
     !.userId = c.userId, !.details = NormaliseDetails(c.details),
     !.parentEntityID = c.parentEntityID,
     !.err = cx.err, !.msg = cx.msg, !.id = cx.id,
     !.repoCalls = cx.repoCalls, !.userRepoCalls = cx.userRepoCalls,
     !.calls = cx.calls,
     !.faultHit = cx.faultHit]

CreateRootEntity ==
  /\ Len(entities) < MaxEntities
  /\ \E c \in RootEntityCalls :
       LET cx == CreateRootEntitySvc(NewCall(entities, users, c.categoryId,
                   c.entityName, c.userId, c.details, NoEntity, c.fault))
       IN /\ entities' = cx.entities
          /\ users' = cx.users
          /\ last' = Returned("CreateRootEntity", c, cx)
  /\ UNCHANGED running

CreateSubEntity ==
  /\ Len(entities) < MaxEntities
  /\ \E c \in SubEntityCalls :
       LET cx == CreateSubEntitySvc(NewCall(entities, users, c.categoryId,
                   c.entityName, c.userId, c.details, c.parentEntityID, c.fault))
       IN /\ entities' = cx.entities
          /\ users' = cx.users
          /\ last' = [Returned("CreateSubEntity", c, cx) EXCEPT
                        !.retry = IsRetry(c),
                        !.before = Cardinality(SameSubEntities(entities,
                                     c.categoryId, c.entityName, c.parentEntityID))]
  /\ UNCHANGED running

CheckEntityExists ==
  \E c \in CheckEntityExistsCalls :
    LET r == CheckEntityExistsSvc(entities, c.userId, c.storeFails)
    IN /\ last' = [NoCall EXCEPT !.op = "CheckEntityExists", !.userId = c.userId,
                     !.err = r.err, !.exists = r.exists, !.repoCalls = r.repoCalls,
                     !.faultHit = IF r.err = "storage" THEN "store" ELSE "none"]
       /\ UNCHANGED <<entities, users, running>>

ListEntityChildren ==
  \E c \in ListEntityChildrenCalls :
    LET r == ListEntityChildrenSvc(entities, c.entityId, c.level, c.categoryType,
                                   c.storeFails)
    IN /\ last' = [NoCall EXCEPT !.op = "ListEntityChildren",
                     !.entityId = c.entityId, !.level = c.level,
                     !.categoryType = c.categoryType, !.err = r.err, !.msg = r.msg,
                     !.result = r.result, !.repoCalls = r.repoCalls,
                     !.faultHit = IF r.err = "storage" THEN "store" ELSE "none"]
       /\ UNCHANGED <<entities, users, running>>

CreateUser ==
  \E userID \in UserIds :
    /\ ~users[userID].exists
    /\ users' = CreateUserRow(users, userID, NoEntity)
    /\ last' = [NoCall EXCEPT !.op = "CreateUser", !.userId = userID]
    /\ UNCHANGED <<entities, running>>

Next ==
  \/ CreateRootEntity
  \/ CreateSubEntity
  \/ CheckEntityExists
  \/ ListEntityChildren
  \/ CreateUser

Spec == Init /\ [][Next]_vars

\* ----------------------------------------------- reading the entity hierarchy

GetChildEntities ==
  \E c \in GetChildEntitiesCalls :
    LET r == GetChildEntitiesSvc(entities, c.entityId, c.recursive, c.storeFails)
    IN /\ last' = [NoCall EXCEPT !.op = "GetChildEntities",
                     !.entityId = c.entityId, !.recursive = c.recursive,
                     !.err = r.err, !.msg = r.msg, !.result = r.result,
                     !.repoCalls = r.repoCalls,
                     !.faultHit = IF r.err = "storage" THEN "store" ELSE "none"]
       /\ UNCHANGED <<entities, users, running>>

GetEntityHierarchy ==
  \E c \in GetEntityHierarchyCalls :
    LET r == GetEntityHierarchySvc(entities, c.rootEntityId, c.storeFails)
    IN /\ last' = [NoCall EXCEPT !.op = "GetEntityHierarchy",
                     !.entityId = c.rootEntityId, !.err = r.err, !.msg = r.msg,
                     !.doc = r.doc, !.repoCalls = r.repoCalls,
                     !.faultHit = IF c.storeFails THEN "store" ELSE "none"]
       /\ UNCHANGED <<entities, users, running>>

GetEntityIDOrCreate ==
  \E c \in GetEntityIDCalls :
    LET r == GetEntityIDSvc(entities, c.userId, c.storeFails)
        made == RepoCreateRootEntity(entities, "cUser", "n1", c.userId,
                                     [kind |-> "empty", val |-> ""])
    IN /\ last' = [NoCall EXCEPT !.op = "GetEntityID", !.userId = c.userId,
                     !.err = r.err, !.msg = r.msg, !.repoCalls = r.repoCalls,
                     !.faultHit = IF c.storeFails THEN "store" ELSE "none"]
       /\ entities' = IF r.err = "notfound" /\ Len(entities) < MaxEntities
                        THEN made.entities ELSE entities
       /\ UNCHANGED <<users, running>>

\* lines 139-145
GetEntityID ==
  \E c \in GetEntityIDCalls :
    LET r == GetEntityIDSvc(entities, c.userId, c.storeFails)
    IN /\ \E id \in (IF r.ids = {} THEN {NoEntity} ELSE r.ids) :
            last' = [NoCall EXCEPT !.op = "GetEntityID", !.userId = c.userId,
                       !.err = r.err, !.msg = r.msg, !.id = id,
                       !.repoCalls = r.repoCalls,
                       !.faultHit = IF c.storeFails THEN "store" ELSE "none"]
       /\ UNCHANGED <<entities, users, running>>

\* the entity store built by the two creating operations and read by the
\* three operations that walk the hierarchy
NextRead ==
  \/ CreateRootEntity
  \/ CreateSubEntity
  \/ ListEntityChildren
  \/ GetChildEntities
  \/ GetEntityHierarchy

SpecRead == Init /\ [][NextRead]_vars

\* ------------------------------------------- concurrent CreateSubEntity calls

\* every collaborator call of a running call goes to the shared entity store
\* and user repository
AtStore(cx, es, us) == [cx EXCEPT !.entities = es, !.users = us]

\* between its collaborator calls a call holds its arguments and the values
\* it has resolved, and no copy of the entity store or the user rows
Local(cx) == [cx EXCEPT !.entities = <<>>, !.users = <<>>]

\* the calls that have started and not yet reached the persist call's end
Unpersisted ==
  {p \in Procs : running[p].pc \in {"parentCategory", "parentType",
                                     "currentType", "persist"}}

\* lines 52-62: a call starts and validates its arguments
SubEntityStart(p) ==
  /\ running[p].pc = "idle"
  /\ Len(entities) + Cardinality(Unpersisted) < MaxEntities
  /\ \E c \in ConcurrentCalls, parent \in 1..Len(entities) :
       LET cx == StepValidate(NewCall(entities, users, c.categoryId,
                   c.entityName, c.userId, c.details, parent, "none"))
       IN running' = [running EXCEPT ![p] =
                        [pc |-> IF cx.done THEN "done" ELSE "parentCategory",
                         began |-> Len(entities), cx |-> Local(cx)]]
  /\ UNCHANGED <<entities, users, last>>

\* the state of call p as its next collaborator call finds it
Current(p) == AtStore(running[p].cx, entities, users)

\* one collaborator call of call p, atomic at the store, and the code up to
\* the next collaborator call or the return: cx is the call after it
Advance(p, at, cx, to) ==
  /\ running[p].pc = at
  /\ entities' = cx.entities
  /\ users' = cx.users
  /\ running' = [running EXCEPT ![p].pc = IF cx.done THEN "done" ELSE to,
                                ![p].cx = Local(cx)]
  /\ UNCHANGED last

SubEntityParentCategory(p) ==
  Advance(p, "parentCategory", StepParentCategory(Current(p)), "parentType")

SubEntityParentType(p) ==
  Advance(p, "parentType", StepParentType(Current(p)), "currentType")

SubEntityCurrentType(p) ==
  Advance(p, "currentType", StepCurrentType(Current(p)), "persist")

SubEntityPersist(p) == Advance(p, "persist", StepPersist(Current(p)), "link")

SubEntityLink(p) == Advance(p, "link", StepLink(Current(p)), "done")

\* line 98 and the error returns: the handler is free for another call
SubEntityReturn(p) ==
  /\ running[p].pc = "done"
  /\ running' = [running EXCEPT ![p] = Idle]
  /\ UNCHANGED <<entities, users, last>>

NextConcurrent ==
  \/ CreateRootEntity
  \/ \E p \in Procs : SubEntityStart(p)
  \/ \E p \in Procs : SubEntityParentCategory(p)
  \/ \E p \in Procs : SubEntityParentType(p)
  \/ \E p \in Procs : SubEntityCurrentType(p)
  \/ \E p \in Procs : SubEntityPersist(p)
  \/ \E p \in Procs : SubEntityLink(p)
  \/ \E p \in Procs : SubEntityReturn(p)

SpecConcurrent == Init /\ [][NextConcurrent]_vars

\* ------------------------------ concurrent calls that set a parent pointer

\* the calls of CreateSubEntity that name a user in subuser_id
LinkingCalls ==
  {[categoryId |-> c, entityName |-> "n1", userId |-> "u1",
    details |-> [kind |-> "string", val |-> s]] :
     c \in Categories, s \in SubuserInputs}

\* two root entities of a category of type "user", created one after the
\* other in an empty store
LinkedStore ==
  LET none == [kind |-> "empty", val |-> ""]
      one == RepoCreateRootEntity(<<>>, "cUser", "n1", "u1", none).entities
  IN RepoCreateRootEntity(one, "cUser", "n1", "u1", none).entities

\* the state after CreateRootEntity, CreateRootEntity, CreateUser(u1),
\* CreateUser(u2) on the initial state
InitPointer ==
  /\ entities = LinkedStore
  /\ users = [u \in UserIds |-> [exists |-> TRUE, parent_id |-> NoEntity,
                                      email |-> "e1", first_name |-> "f1",
                                      role |-> "user"]]
  /\ last = [NoCall EXCEPT !.op = "CreateUser", !.userId = "u2"]
  /\ running = [p \in Procs |-> Idle]

\* lines 52-62: a handler starts the one call it serves and validates its
\* arguments
SubEntityStartLinking(p) ==
  /\ running[p].pc = "idle"
  /\ \E c \in LinkingCalls, parent \in 1..Len(entities) :
       LET cx == StepValidate(NewCall(entities, users, c.categoryId,
                   c.entityName, c.userId, c.details, parent, "none"))
       IN running' = [running EXCEPT ![p] =
                        [pc |-> IF cx.done THEN "done" ELSE "parentCategory",
                         began |-> Len(entities), cx |-> Local(cx)]]
  /\ UNCHANGED <<entities, users, last>>

\* the context of call p is cancelled between two collaborator calls: the
\* code does not look at ctx itself, so the call goes on to its next
\* collaborator call, which gets the cancelled context and fails without
\* touching the store
SubEntityCancel(p) ==
  /\ running[p].pc \in Faults
  /\ running[p].cx.fault = "none"
  /\ running' = [running EXCEPT ![p].cx.fault = running[p].pc]
  /\ UNCHANGED <<entities, users, last>>

NextPointer ==
  \/ \E p \in Procs : SubEntityStartLinking(p)
  \/ \E p \in Procs : SubEntityParentCategory(p)
  \/ \E p \in Procs : SubEntityParentType(p)
  \/ \E p \in Procs : SubEntityCurrentType(p)
  \/ \E p \in Procs : SubEntityPersist(p)
  \/ \E p \in Procs : SubEntityLink(p)
  \/ \E p \in Procs : SubEntityCancel(p)

SpecPointer == InitPointer /\ [][NextPointer]_vars

\* ----------------------------------------- every operation of the engine

\* the state after CreateUser(u1), CreateUser(u2) on the initial state
InitFrame ==
  /\ entities = <<>>
  /\ users = [u \in UserIds |-> [exists |-> TRUE, parent_id |-> NoEntity,
                                      email |-> "e1", first_name |-> "f1",
                                      role |-> "user"]]
  /\ last = [NoCall EXCEPT !.op = "CreateUser", !.userId = "u2"]
  /\ running = [p \in Procs |-> Idle]

\* the seven operations of EntityService, each in one step, with two
\* existing users
NextFrame ==
  \/ CreateRootEntity
  \/ CreateSubEntity
  \/ CheckEntityExists
  \/ GetChildEntities
  \/ GetEntityHierarchy
  \/ ListEntityChildren
  \/ GetEntityID

SpecFrame == InitFrame /\ [][NextFrame]_vars

\* ------------------------------------------------------ the user operations

\* the calls of GetChildUsers: every entity and every user identifier as the
\* parent; the database failing; the found row's columns parsing or not
GetChildUsersCalls ==
  {[parentID |-> k, addressParses |-> ap, dbFails |-> FALSE] :
     k \in {EntityKey(e) : e \in 1..MaxEntities} \cup {UserKey(u) : u \in UserIds},
     ap \in BOOLEAN}
    \cup {[parentID |-> EntityKey(1), addressParses |-> TRUE, dbFails |-> TRUE]}

\* one call of UserRepository.GetChildUsers on the stored users
GetChildUsers ==
  \E c \in GetChildUsersCalls :
    LET r == RepoGetChildUsers(users, c.parentID, c.addressParses, c.dbFails)
    IN /\ last' = [NoCall EXCEPT !.op = "GetChildUsers",
                                 !.parentID = c.parentID,
                                 !.children = r.rows, !.err = r.err,
                                 !.calls = <<"GetChildUsers">>]
       /\ UNCHANGED <<entities, users, running>>

\* the calls of UpdateUserDetails: every request for an existing user
\* without a fault; an unknown user; each repository call failing
UpdateUserDetailsCalls ==
  {[userID |-> u, req |-> q, fault |-> "none"] :
     u \in UserIds, q \in UserDetailsRequests}
    \cup {[userID |-> "u3", req |-> q, fault |-> "none"] :
            q \in {[Email |-> "e2", FirstName |-> "f2", ParentID |-> 1,
                    Role |-> "admin"]}}
    \cup {[userID |-> "u1", req |-> q, fault |-> f] :
            q \in {[Email |-> "e2", FirstName |-> "f2", ParentID |-> 1,
                    Role |-> "admin"]},
            f \in {"get", "update"}}

\* one call of UserService.UpdateUserDetails
UpdateUserDetails ==
  \E c \in UpdateUserDetailsCalls :
    LET r == UpdateUserDetailsSvc(users, c.userID, c.req, c.fault)
    IN /\ users' = r.users
       /\ last' = [NoCall EXCEPT !.op = "UpdateUserDetails",
                                 !.userId = c.userID, !.req = c.req,
                                 !.user = r.user, !.err = r.err,
                                 !.calls = r.calls,
                                 !.faultHit = IF r.err \in {"retrieve", "update"}
                                                /\ c.fault # "none"
                                              THEN c.fault ELSE "none"]
       /\ UNCHANGED <<entities, running>>

\* entity creation with its cross-link, the child-user query and the
\* profile update, with two existing users
NextUsers ==
  \/ CreateRootEntity
  \/ CreateSubEntity
  \/ GetChildUsers
  \/ UpdateUserDetails

SpecUsers == InitFrame /\ [][NextUsers]_vars

\* ------------------------------------------------------------------ claims

\* category type of the parent entity the last call named ("" when it names
\* no persisted entity) and of the category it named
CallParentType ==
  IF last.parentEntityID \in 1..Len(entities)
    THEN CategoryTable[entities[last.parentEntityID].category_id]
    ELSE ""

CallCurrentType ==
  IF last.categoryId \in Categories THEN CategoryTable[last.categoryId] ELSE ""

BothUser == CallParentType = "user" /\ CallCurrentType = "user"

NewestEntity == entities[Len(entities)]

\* C1: a successful CreateSubEntity with parent and new category of type
\* "user" and a string subuser_id s makes exactly one user-repository call,
\* UpdateUserParentID(s, parent_entity_id), and no other.
C1_ExactlyOneSetParent ==
  (/\ last.op = "CreateSubEntity"
   /\ last.err = "none"
   /\ BothUser
   /\ last.details.kind = "string")
    => last.userRepoCalls =
         <<[userID |-> last.details.val, parentID |-> last.parentEntityID]>>

C1_Witness ==
  /\ last.op = "CreateSubEntity"
  /\ last.err = "none"
  /\ BothUser
  /\ last.details = [kind |-> "string", val |-> "u2"]
  /\ last.parentEntityID = 2
  /\ last.id = 3
  /\ Len(last.userRepoCalls) = 1

\* C2: a CreateSubEntity call whose parent category type or own category type
\* is not "user" makes no user-repository call, whatever the payload holds,
\* and leaves every user's row as it was.
C2_NoLinkUnlessBothUser ==
  [][(/\ last'.op = "CreateSubEntity"
      /\ ~BothUser')
       => /\ last'.userRepoCalls = <<>>
          /\ users' = users]_vars

C2_Witness ==
  /\ last.op = "CreateSubEntity"
  /\ last.err = "none"
  /\ CallParentType = "organization"
  /\ CallCurrentType = "user"
  /\ last.details = [kind |-> "string", val |-> "u1"]
  /\ users["u1"].exists
  /\ last.userRepoCalls = <<>>

\* C3: with both category types "user" and every store call succeeding, a
\* payload without subuser_id fails the call with the validation error
\* "subuser_id not found", a non-string subuser_id fails it with "subuser_id
\* must be a string"; neither makes a user-repository call nor returns an id.
C3_SubuserValidation ==
  (/\ last.op = "CreateSubEntity"
   /\ BothUser
   /\ last.entityName # ""
   /\ last.faultHit = "none")
    => /\ last.details.kind = "empty"
            => /\ last.err = "validation"
               /\ last.msg = "subuser_id not found in details"
               /\ last.id = NoEntity
               /\ last.userRepoCalls = <<>>
       /\ last.details.kind = "number"
            => /\ last.err = "validation"
               /\ last.msg = "subuser_id must be a string"
               /\ last.id = NoEntity
               /\ last.userRepoCalls = <<>>

C3_Witness ==
  /\ last.op = "CreateSubEntity"
  /\ BothUser
  /\ last.details.kind = "number"
  /\ last.msg = "subuser_id must be a string"
  /\ users["u1"].exists

\* C4: every persisted entity without a parent has depth 0, every other one
\* has a persisted parent and depth one more than its parent's.
C4_DepthInvariant ==
  \A i \in 1..Len(entities) :
    IF entities[i].parent_id = NoEntity
      THEN entities[i].depth = 0
      ELSE /\ entities[i].parent_id \in 1..Len(entities)
           /\ entities[i].depth = entities[entities[i].parent_id].depth + 1

C4_Witness ==
  /\ Len(entities) = 3
  /\ entities[2].parent_id = 1
  /\ entities[3].parent_id = 2
  /\ entities[3].depth = 2

\* following parent pointers from entity i reaches a root within fuel steps
RECURSIVE ReachesRoot(_, _, _)
ReachesRoot(es, i, fuel) ==
  IF es[i].parent_id = NoEntity THEN TRUE
  ELSE IF fuel = 0 \/ es[i].parent_id \notin 1..Len(es) THEN FALSE
  ELSE ReachesRoot(es, es[i].parent_id, fuel - 1)

\* C5: an entity persisted by CreateSubEntity has the supplied
\* parent_entity_id as its parent_id, and from every persisted entity the
\* parent pointers lead to a root in finitely many steps (no cycle).
C5_ParentAndForest ==
  /\ (last.op = "CreateSubEntity" /\ last.persisted)
       => /\ NewestEntity.parent_id = last.parentEntityID
          /\ last.parentEntityID \in 1..(Len(entities) - 1)
  /\ \A i \in 1..Len(entities) : ReachesRoot(entities, i, Len(entities))

C5_Witness ==
  /\ last.op = "CreateSubEntity"
  /\ last.persisted
  /\ last.parentEntityID = 1
  /\ Len(entities) = 3
  /\ entities[2].parent_id = 1
  /\ entities[3].parent_id = 1

\* C6 as stated: after a successful CreateSubEntity with both category types
\* "user", the existing user named by subuser_id has the id the call
\* returned (the new entity's id) as its parent pointer.
C6_PointerIsNewEntity ==
  (/\ last.op = "CreateSubEntity"
   /\ last.err = "none"
   /\ BothUser
   /\ last.details.kind = "string"
   /\ users[last.details.val].exists)
    => users[last.details.val].parent_id = last.id

\* C6 amended: after a successful CreateSubEntity with both category types
\* "user", the existing user named by subuser_id has the supplied
\* parent_entity_id as its parent pointer, which is never the id returned.
C6_PointerIsParentEntity ==
  (/\ last.op = "CreateSubEntity"
   /\ last.err = "none"
   /\ BothUser
   /\ last.details.kind = "string"
   /\ users[last.details.val].exists)
    => /\ users[last.details.val].parent_id = last.parentEntityID
       /\ users[last.details.val].parent_id # last.id

C6_Witness ==
  /\ last.op = "CreateSubEntity"
  /\ last.err = "none"
  /\ BothUser
  /\ last.details = [kind |-> "string", val |-> "u1"]
  /\ users["u1"].exists
  /\ users["u1"].parent_id = 1
  /\ last.id = 2

\* C7: when the UpdateUserParentID call of a CreateSubEntity fails, the call
\* returns an error and no id, and the entity it created stays in the store
\* under the supplied parent, one level below it.
C7_LinkFailureKeepsEntity ==
  (last.op = "CreateSubEntity" /\ last.faultHit = "link")
    => /\ last.err # "none"
       /\ last.id = NoEntity
       /\ last.persisted
       /\ NewestEntity.category_id = last.categoryId
       /\ NewestEntity.name = last.entityName
       /\ NewestEntity.parent_id = last.parentEntityID
       /\ NewestEntity.depth = entities[last.parentEntityID].depth + 1

C7_Witness ==
  /\ last.op = "CreateSubEntity"
  /\ last.faultHit = "link"
  /\ last.err = "link"
  /\ Len(entities) = 3
  /\ entities[3].parent_id = 2
  /\ entities[3].depth = 2

\* the persisted entities with the last call's category and name under the
\* parent it named
SameAsLast ==
  SameSubEntities(entities, last.categoryId, last.entityName, last.parentEntityID)

\* C8 as stated: a CreateSubEntity call repeated right after it failed at the
\* cross-link attempts the link again and leaves the number of entities with
\* its name and category under its parent as it was.
C8_RetryDoesNotRecreate ==
  (last.op = "CreateSubEntity" /\ last.retry /\ last.faultHit \in {"none", "link"})
    => /\ last.userRepoCalls # <<>>
       /\ Cardinality(SameAsLast) = last.before

\* C8 amended: a CreateSubEntity call repeated right after it failed at the
\* cross-link attempts the link again only after persisting one more entity:
\* without a store failure it reaches the link, and the entities with its
\* name and category under its parent are one more than before, at least two.
C8_RetryRecreates ==
  (last.op = "CreateSubEntity" /\ last.retry)
    => /\ last.faultHit \in {"none", "link"} => last.userRepoCalls # <<>>
       /\ last.userRepoCalls # <<>>
            => /\ last.persisted
               /\ last.before >= 1
               /\ Cardinality(SameAsLast) = last.before + 1

C8_Witness ==
  /\ last.op = "CreateSubEntity"
  /\ last.retry
  /\ last.err = "none"
  /\ last.userRepoCalls # <<>>
  /\ Cardinality(SameAsLast) = 2

\* C9: ListEntityChildren with a level below -1, or with an empty entity id,
\* fails with a validation error without calling the entity store, for every
\* entity id and category type filter.
C9_ListValidation ==
  (/\ last.op = "ListEntityChildren"
   /\ (last.level < -1 \/ last.entityId = NoEntity))
    => /\ last.err = "validation"
       /\ last.repoCalls = <<>>
       /\ last.result = {}

C9_Witness ==
  /\ last.op = "ListEntityChildren"
  /\ last.level = -2
  /\ last.entityId = 1
  /\ last.categoryType = "user"
  /\ Len(entities) >= 2
  /\ entities[2].parent_id = 1
  /\ last.err = "validation"

\* C10: CheckEntityExists with an empty user id fails with a validation error
\* without calling the entity store; with a non-empty id that owns no entity
\* it returns false and no error, provided the store lookup itself succeeds.
C10_CheckEntityExists ==
  /\ (last.op = "CheckEntityExists" /\ last.userId = "")
       => /\ last.err = "validation"
          /\ last.repoCalls = <<>>
          /\ ~last.exists
  /\ (/\ last.op = "CheckEntityExists"
      /\ last.userId # ""
      /\ last.faultHit = "none"
      /\ \A i \in 1..Len(entities) : entities[i].user_id # last.userId)
       => /\ last.err = "none"
          /\ ~last.exists
          /\ last.repoCalls = <<"CheckEntityPresence">>

C10_Witness ==
  /\ last.op = "CheckEntityExists"
  /\ last.userId = "u2"
  /\ Len(entities) >= 1
  /\ last.err = "none"
  /\ ~last.exists

\* the entities reached from the frontier by asking GetChildEntities
\* (recursive = false) for the children of each entity found, generation by
\* generation
RECURSIVE BreadthFirst(_, _, _)
BreadthFirst(es, frontier, seen) ==
  LET next == UNION {GetChildEntitiesSvc(es, x, FALSE, FALSE).result :
                       x \in frontier} \ seen
  IN IF next = {} THEN seen ELSE BreadthFirst(es, next, seen \cup next)

\* C11: in every reachable store, for every entity id,
\* ListEntityChildren(id, -1, "") returns exactly the entities found by the
\* breadth-first closure of GetChildEntities(x, recursive = false) from id;
\* so does the ListEntityChildren call the program last made with level -1
\* and no filter.
C11_ListAllIsClosure ==
  /\ \A id \in 1..MaxEntities :
       LET r == ListEntityChildrenSvc(entities, id, -1, "", FALSE)
       IN /\ r.err = "none"
          /\ r.result = BreadthFirst(entities, {id}, {})
  /\ (/\ last.op = "ListEntityChildren"
      /\ last.level = -1
      /\ last.categoryType = ""
      /\ last.err = "none")
       => last.result = BreadthFirst(entities, {last.entityId}, {})

C11_Witness ==
  /\ last.op = "ListEntityChildren"
  /\ last.level = -1
  /\ last.categoryType = ""
  /\ last.err = "none"
  /\ \E i \in last.result : entities[i].parent_id \in last.result

\* number of nodes of a hierarchy document, and of a set of documents
RECURSIVE NodeCount(_)
RECURSIVE NodeCountAll(_)
NodeCount(doc) == 1 + NodeCountAll(doc.children)

NodeCountAll(docs) ==
  IF docs = {} THEN 0
  ELSE LET d == CHOOSE x \in docs : TRUE
       IN NodeCount(d) + NodeCountAll(docs \ {d})

\* C12: in every reachable store, for every existing entity id,
\* GetEntityHierarchy(id) returns a document whose number of nodes is 1 plus
\* the number of entities GetChildEntities(id, recursive = true) returns; for
\* an id that names no entity it fails with NotFound.  The same holds of the
\* GetEntityHierarchy call the program last made.
C12_HierarchyNodeCount ==
  /\ \A id \in 1..MaxEntities :
       LET h == GetEntityHierarchySvc(entities, id, FALSE)
           d == GetChildEntitiesSvc(entities, id, TRUE, FALSE)
       IN IF id \in 1..Len(entities)
            THEN /\ h.err = "none"
                 /\ h.doc.id = id
                 /\ NodeCount(h.doc) = 1 + Cardinality(d.result)
            ELSE h.err = "notfound"
  /\ (/\ last.op = "GetEntityHierarchy"
      /\ last.entityId # NoEntity
      /\ last.faultHit = "none")
       => IF last.entityId \in 1..Len(entities)
            THEN /\ last.err = "none"
                 /\ NodeCount(last.doc) =
                      1 + Cardinality(GetChildEntitiesSvc(entities, last.entityId,
                                                          TRUE, FALSE).result)
            ELSE last.err = "notfound"

C12_Witness ==
  /\ last.op = "GetEntityHierarchy"
  /\ last.err = "none"
  /\ NodeCount(last.doc) = 3
  /\ \E c \in last.doc.children : c.children # {}

\* C13: a ListEntityChildren(r, 0, "") call made immediately after a
\* successful CreateRootEntity that returned r, and answered by the store,
\* returns no entity, whatever other entities the store holds.
C13_NewRootHasNoChildren ==
  [][(/\ last.op = "CreateRootEntity"
      /\ last.err = "none"
      /\ last'.op = "ListEntityChildren"
      /\ last'.entityId = last.id
      /\ last'.level = 0
      /\ last'.categoryType = ""
      /\ last'.faultHit = "none")
       => /\ last'.err = "none"
          /\ last'.result = {}]_vars

C13_Witness ==
  /\ last.op = "ListEntityChildren"
  /\ last.entityId = Len(entities)
  /\ last.entityId >= 2
  /\ entities[last.entityId].parent_id = NoEntity
  /\ \E i \in 1..Len(entities) : entities[i].parent_id # NoEntity
  /\ last.level = 0
  /\ last.categoryType = ""
  /\ last.err = "none"
  /\ last.result = {}

\* C14: a CreateRootEntity or CreateSubEntity call with an empty category id
\* or an empty name fails with a validation error, calls neither the entity
\* store nor the user repository, and leaves the stored entities and every
\* user's parent pointer as they were; a successful CreateRootEntity adds
\* exactly one entity to the store, with no parent and depth 0, and returns
\* its id.
C14_ValidationAndRootCreate ==
  [][/\ (/\ last'.op \in {"CreateRootEntity", "CreateSubEntity"}
         /\ (last'.categoryId = "" \/ last'.entityName = ""))
          => /\ last'.err = "validation"
             /\ last'.id = NoEntity
             /\ last'.repoCalls = <<>>
             /\ last'.userRepoCalls = <<>>
             /\ entities' = entities
             /\ users' = users
     /\ (/\ last'.op = "CreateRootEntity"
         /\ last'.err = "none")
          => /\ Len(entities') = Len(entities) + 1
             /\ SubSeq(entities', 1, Len(entities)) = entities
             /\ entities'[Len(entities')].parent_id = NoEntity
             /\ entities'[Len(entities')].depth = 0
             /\ entities'[Len(entities')].category_id = last'.categoryId
             /\ entities'[Len(entities')].name = last'.entityName
             /\ last'.id = Len(entities')
             /\ users' = users]_vars

C14_Witness ==
  /\ last.op = "CreateSubEntity"
  /\ last.categoryId = "cUser"
  /\ last.entityName = ""
  /\ last.parentEntityID \in 1..Len(entities)
  /\ last.err = "validation"
  /\ \E u \in UserIds : users[u].parent_id # NoEntity

\* the descendants of entity id found at most n generations below it, by
\* descending from parent to children
RECURSIVE WithinGenerations(_, _, _)
WithinGenerations(es, id, n) ==
  IF n = 0 THEN {}
  ELSE LET near == WithinGenerations(es, id, n - 1)
       IN near \cup {i \in 1..Len(es) : es[i].parent_id \in near \cup {id}}

\* what ListEntityChildren returns for entity id at a level, without filter
ListedAt(id, level) == ListEntityChildrenSvc(entities, id, level, "", FALSE).result

\* C15: in every reachable store and for every entity id, ListEntityChildren
\* without a filter returns at level 0 exactly the direct children, at a
\* positive level N exactly the descendants at most N generations below the
\* entity, and at level -1 all descendants; so the result at level N is
\* contained in the result at level N + 1 for every N >= 0, and every result
\* is contained in the result at level -1.
C15_LevelSemantics ==
  \A id \in 1..MaxEntities :
    /\ ListedAt(id, 0) = {i \in 1..Len(entities) : entities[i].parent_id = id}
    /\ ListedAt(id, -1) = WithinGenerations(entities, id, Len(entities))
    /\ \A n \in 1..(MaxEntities + 1) :
         ListedAt(id, n) = WithinGenerations(entities, id, n)
    /\ \A n \in 0..MaxEntities : ListedAt(id, n) \subseteq ListedAt(id, n + 1)
    /\ \A n \in 0..(MaxEntities + 1) : ListedAt(id, n) \subseteq ListedAt(id, -1)

C15_Witness ==
  /\ last.op = "ListEntityChildren"
  /\ last.level = 1
  /\ last.categoryType = ""
  /\ last.err = "none"
  /\ last.result = ListedAt(last.entityId, 1)
  /\ last.result # {}
  /\ last.result # ListedAt(last.entityId, 2)

\* C16: a GetChildEntities call with an empty id fails with a validation
\* error without calling the store; answered by the store, with
\* recursive = false it returns exactly the entities whose parent_id is the
\* id, and with recursive = true exactly the entities that reach the id by
\* one or more parent steps, however many, never the entity itself.
C16_GetChildEntities ==
  /\ (last.op = "GetChildEntities" /\ last.entityId = NoEntity)
       => /\ last.err = "validation"
          /\ last.repoCalls = <<>>
          /\ last.result = {}
  /\ (/\ last.op = "GetChildEntities"
      /\ last.entityId # NoEntity
      /\ last.faultHit = "none")
       => /\ last.err = "none"
          /\ last.repoCalls = <<"GetChildEntities">>
          /\ last.entityId \notin last.result
          /\ last.result =
               IF last.recursive
                 THEN {i \in 1..Len(entities) :
                         StepsUp(entities, i, last.entityId) >= 1}
                 ELSE {i \in 1..Len(entities) :
                         entities[i].parent_id = last.entityId}

C16_Witness ==
  /\ last.op = "GetChildEntities"
  /\ last.recursive
  /\ last.err = "none"
  /\ \E i \in last.result : entities[i].parent_id \in last.result

\* the collaborator calls of CreateSubEntity in the order of lines 64-94
CallOrder ==
  <<"GetCategoryIDByEntityID", "GetCategoryType", "GetCategoryType",
    "CreateSubEntity", "UpdateUserParentID">>

IsPrefix(s, t) == Len(s) <= Len(t) /\ s = SubSeq(t, 1, Len(s))

\* the last call passed validation and one of its three resolve steps
\* failed: the parent entity or the new category is missing, or the store
\* failed at the step
ResolveFailed ==
  /\ last.categoryId # ""
  /\ last.entityName # ""
  /\ \/ last.parentEntityID \notin 1..Len(entities)
     \/ last.categoryId \notin Categories
     \/ last.faultHit \in {"parentCategory", "parentType", "currentType"}

\* C17: the collaborator calls of one CreateSubEntity call are an initial
\* part of the fixed order: resolve the parent's category id, resolve the
\* parent category's type, resolve the new category's type, persist, set the
\* user's parent pointer; the pointer is set only when both types are
\* "user", and the entity is persisted only by a call that made the persist
\* call; when a resolve step fails the call returns an error and no id, with
\* no persist call, no entity persisted and no pointer call.
C17_CallOrder ==
  last.op = "CreateSubEntity"
    => /\ IsPrefix(last.calls, CallOrder)
       /\ Len(last.calls) = Len(CallOrder) => BothUser
       /\ last.persisted => Len(last.calls) >= 4
       /\ last.err = "none" => Len(last.calls) >= 4
       /\ ResolveFailed
            => /\ last.err \in {"notfound", "storage"}
               /\ last.id = NoEntity
               /\ Len(last.calls) \in 1..3
               /\ ~last.persisted
               /\ last.userRepoCalls = <<>>

C17_Witness ==
  /\ last.op = "CreateSubEntity"
  /\ last.calls = CallOrder
  /\ last.err = "none"
  /\ last.persisted
  /\ users[last.details.val].parent_id = last.parentEntityID

\* C18: a CreateSubEntity call whose parent's and own categories are both of
\* type "user", whose store calls all succeed, and whose details lack
\* "subuser_id" or bind it to a non-string, returns a validation error and
\* no id after its entity has been persisted: the store holds exactly one
\* entity more than before the call, the new one a child of the call's
\* parent_entity_id, and no user's parent pointer has changed.
C18_PersistedBeforeSubuserCheck ==
  [][(/\ last'.op = "CreateSubEntity"
      /\ last'.entityName # ""
      /\ last'.categoryId \in Categories
      /\ CategoryTable[last'.categoryId] = "user"
      /\ last'.parentEntityID \in 1..Len(entities)
      /\ CategoryTable[entities[last'.parentEntityID].category_id] = "user"
      /\ last'.details.kind \in {"empty", "number"}
      /\ last'.faultHit = "none")
       => /\ last'.err = "validation"
          /\ last'.id = NoEntity
          /\ last'.persisted
          /\ Len(entities') = Len(entities) + 1
          /\ SubSeq(entities', 1, Len(entities)) = entities
          /\ entities'[Len(entities')].parent_id = last'.parentEntityID
          /\ entities'[Len(entities')].category_id = last'.categoryId
          /\ last'.userRepoCalls = <<>>
          /\ users' = users]_vars

C18_Witness ==
  /\ last.op = "CreateSubEntity"
  /\ BothUser
  /\ last.details.kind = "number"
  /\ last.err = "validation"
  /\ last.msg = "subuser_id must be a string"
  /\ last.persisted
  /\ NewestEntity.parent_id = last.parentEntityID

\* C19: a CreateSubEntity call whose parent's and own categories are both of
\* type "user", whose store calls all succeed, and whose subuser_id is a
\* string naming no existing user record, succeeds: it makes the one
\* pointer update, which affects no row and reports no error, returns the id
\* of the entity it persisted, and no user's parent pointer has changed.
C19_UnknownSubuserSucceeds ==
  [][(/\ last'.op = "CreateSubEntity"
      /\ last'.entityName # ""
      /\ last'.categoryId \in Categories
      /\ CategoryTable[last'.categoryId] = "user"
      /\ last'.parentEntityID \in 1..Len(entities)
      /\ CategoryTable[entities[last'.parentEntityID].category_id] = "user"
      /\ last'.details.kind = "string"
      /\ ~users[last'.details.val].exists
      /\ last'.faultHit = "none")
       => /\ last'.err = "none"
          /\ Len(last'.userRepoCalls) = 1
          /\ last'.userRepoCalls[1].userID = last'.details.val
          /\ Len(entities') = Len(entities) + 1
          /\ last'.id = Len(entities')
          /\ entities'[last'.id].parent_id = last'.parentEntityID
          /\ users' = users]_vars

C19_Witness ==
  /\ last.op = "CreateSubEntity"
  /\ BothUser
  /\ last.details.kind = "string"
  /\ last.details.val = "u2"
  /\ ~users["u2"].exists
  /\ users["u1"].exists
  /\ last.err = "none"
  /\ last.id = Len(entities)
  /\ Len(last.userRepoCalls) = 1

\* two different handlers have both finished a CreateSubEntity call under
\* the same parent, neither having returned yet
FinishedSiblings(p, q) ==
  /\ p # q
  /\ running[p].pc = "done"
  /\ running[q].pc = "done"
  /\ running[p].cx.parentEntityID = running[q].cx.parentEntityID

\* what the call of handler p returns when it runs alone on the store
AloneOutcome(p) ==
  LET c == running[p].cx
  IN CreateSubEntitySvc(NewCall(entities, users, c.categoryId, c.entityName,
                                c.userId, c.details, c.parentEntityID, "none"))

\* C20: whatever the interleaving of the steps of two CreateSubEntity calls
\* started under the same existing parent, over a store whose calls are
\* atomic: each call has persisted an entity, the two ids differ, each entity
\* has the parent as parent_id, the parent's depth plus one as depth and its
\* own call's category, and each call made the collaborator calls and
\* returned the error, or its own entity's id, that it returns when run
\* alone.
C20_ConcurrentSiblings ==
  \A p, q \in Procs :
    FinishedSiblings(p, q) =>
      LET c == running[p].cx
          d == running[q].cx
          parent == c.parentEntityID
      IN /\ c.subentityID \in 1..Len(entities)
         /\ c.subentityID # d.subentityID
         /\ entities[c.subentityID].parent_id = parent
         /\ entities[c.subentityID].depth = entities[parent].depth + 1
         /\ entities[c.subentityID].category_id = c.categoryId
         /\ c.err = AloneOutcome(p).err
         /\ c.calls = AloneOutcome(p).calls
         /\ c.userRepoCalls = AloneOutcome(p).userRepoCalls
         /\ c.id = IF c.err = "none" THEN c.subentityID ELSE NoEntity

C20_Witness ==
  /\ FinishedSiblings("a", "b")
  /\ running["a"].began = running["b"].began
  /\ running["a"].cx.subentityID < running["b"].cx.subentityID
  /\ running["a"].cx.categoryId = "cUser"
  /\ running["b"].cx.categoryId = "cOrg"
  /\ running["a"].cx.err = "none"
  /\ Len(running["a"].cx.calls) = Len(CallOrder)

\* the call of handler p had its context cancelled when its next
\* collaborator call was the one named step
CancelledBefore(p, step) == running[p].cx.fault = step

\* handler p serves a call that reaches the cross-link: parent and new
\* category of type "user"
ReachesLink(p) ==
  LET c == running[p].cx
  IN /\ c.categoryId \in Categories
     /\ CategoryTable[c.categoryId] = "user"
     /\ c.parentEntityID \in 1..Len(entities)
     /\ CategoryTable[entities[c.parentEntityID].category_id] = "user"

\* C21: a CreateSubEntity call with both categories of type "user" and a
\* string subuser_id that is cancelled between its persist call and its
\* cross-link has its entity persisted under its parent while no pointer
\* update has been made for it, and the pointer update it then makes with
\* the cancelled context changes no user and no entity and ends the call
\* with an error; a call cancelled before its persist call never persists
\* an entity, and none of its steps changes the entities or the users.
C21_CancelledCall ==
  [][\A p \in Procs :
       LET c == running[p].cx
           d == running'[p].cx
           stepped == running'[p].pc # running[p].pc
       IN /\ (CancelledBefore(p, "link") /\ ReachesLink(p))
               => /\ c.subentityID \in 1..Len(entities)
                  /\ entities[c.subentityID].parent_id = c.parentEntityID
                  /\ running[p].pc = "link" => c.userRepoCalls = <<>>
                  /\ stepped
                       => /\ running'[p].pc = "done"
                          /\ d.err = "link"
                          /\ d.id = NoEntity
                          /\ entities' = entities
                          /\ users' = users
          /\ (c.fault \in {"parentCategory", "parentType", "currentType", "persist"})
               => /\ c.subentityID = NoEntity
                  /\ d.subentityID = NoEntity
                  /\ stepped
                       => /\ running'[p].pc = "done"
                          /\ d.err = "storage"
                          /\ d.id = NoEntity
                          /\ d.userRepoCalls = <<>>
                          /\ entities' = entities
                          /\ users' = users]_vars

C21_Witness ==
  /\ running["a"].pc = "link"
  /\ CancelledBefore("a", "link")
  /\ ReachesLink("a")
  /\ running["a"].cx.details.val = "u1"
  /\ running["a"].cx.subentityID \in 1..Len(entities)
  /\ running["a"].cx.userRepoCalls = <<>>
  /\ users["u1"].parent_id = NoEntity

\* the calls whose entity is persisted under the entity parent, with the
\* parent's and the entity's category of type "user" and the string
\* subuser_id u in the details they were persisted with
LinkSources(u, parent) ==
  {p \in Procs :
     LET c == running[p].cx
     IN /\ c.subentityID \in 1..Len(entities)
        /\ entities[c.subentityID].parent_id = parent
        /\ CategoryTable[entities[c.subentityID].category_id] = "user"
        /\ parent \in 1..Len(entities)
        /\ CategoryTable[entities[parent].category_id] = "user"
        /\ c.details.kind = "string"
        /\ c.details.val = u}

\* C22: in every state reached by interleaving the steps of CreateSubEntity
\* calls, two of them naming the same user under different parents
\* included, every user whose parent pointer has been set has as pointer
\* the parent_entity_id of a persisted entity whose category and whose
\* parent's category are of type "user" and whose details name that user
\* in subuser_id.
C22_PointerHasSource ==
  \A u \in UserIds :
    users[u].parent_id # NoEntity => LinkSources(u, users[u].parent_id) # {}

C22_Witness ==
  /\ running["a"].pc = "done"
  /\ running["b"].pc = "done"
  /\ running["a"].began = running["b"].began
  /\ running["a"].cx.details.val = "u1"
  /\ running["b"].cx.details.val = "u1"
  /\ running["a"].cx.parentEntityID = 1
  /\ running["b"].cx.parentEntityID = 2
  /\ running["a"].cx.err = "none"
  /\ running["b"].cx.err = "none"
  /\ Len(running["a"].cx.userRepoCalls) = 1
  /\ Len(running["b"].cx.userRepoCalls) = 1
  /\ running["a"].cx.subentityID < running["b"].cx.subentityID
  /\ users["u1"].parent_id = 1

ReadOperations ==
  {"CheckEntityExists", "GetChildEntities", "ListEntityChildren",
   "GetEntityHierarchy", "GetEntityID"}

ChildrenOf(parentID) ==
  {u \in UserIds : /\ users[u].exists
                   /\ parentID.entity # NoEntity
                   /\ users[u].parent_id = parentID.entity}

\* C24: a GetChildUsers(parentID) call that succeeds returns exactly the
\* users whose parent_id equals parentID; in particular a user cross-linked
\* under parentID is among them.
C24_ChildUsers ==
  (last.op = "GetChildUsers" /\ last.err = "none")
    => last.children = ChildrenOf(last.parentID)

\* the stored columns of user u that UpdateUserDetails must leave alone
Kept(us, u) == <<us[u].parent_id, us[u].email, us[u].role>>

\* C25: UpdateUserDetails never changes a stored parent_id, email or role,
\* whatever ParentID its request carries and its returned user shows; a
\* stored parent_id changes only in a call that made the cross-link
\* UpdateUserParentID for that user with the new value.
C25_DetailsKeepParent ==
  [][/\ last'.op = "UpdateUserDetails"
        => \A u \in UserIds : Kept(users', u) = Kept(users, u)
     /\ \A u \in UserIds :
          users'[u].parent_id # users[u].parent_id
            => \E i \in DOMAIN last'.userRepoCalls :
                 /\ last'.userRepoCalls[i].userID = u
                 /\ last'.userRepoCalls[i].parentID = users'[u].parent_id]_vars

\* an update of a user cross-linked under entity 2 succeeded with ParentID 1
\* and another email in its request: the returned user shows both, the
\* stored row neither, and the first name was written
C25_Witness ==
  /\ last.op = "UpdateUserDetails"
  /\ last.err = "none"
  /\ last.req.ParentID = 1
  /\ last.user.parent_id = 1
  /\ last.user.email = "e2"
  /\ users[last.userId].parent_id = 2
  /\ users[last.userId].email = "e1"
  /\ users[last.userId].first_name = "f2"
  /\ last.user.first_name = "f2"

====
